---------------------------- MODULE Spec2Model ----------------------------
(***************************************************************************)
(* A model of the CSV-to-vCard converter of src/Convert2.py                *)
(* (class ContactConverter).                                               *)
(*                                                                         *)
(* A Python str is a sequence of characters, each character a one-letter   *)
(* TLA+ string.  Python's None is the value None below.  A call that may   *)
(* raise returns a record [ok, val, exc]: ok = FALSE stands for the raised *)
(* exception, named by exc.                                                *)
(***************************************************************************)
EXTENDS Integers, Sequences, FiniteSets, TLC

VARIABLES
    country_code,   \* self.country_code
    vcard_version,  \* self.vcard_version
    name_suffix,    \* self.name_suffix
    backup,         \* self.backup
    phone,          \* argument of clean_phone_number
    row,            \* argument of validate_contact
    contact,        \* argument of create_vcard_entry
    result,         \* what the last unit call returned or raised
    pc,             \* position inside convert_to_vcard
    run,            \* which run of convert_to_vcard this is
    clock,          \* datetime.now(), in seconds
    csv_state,      \* the input path: missing, unreadable or readable
    csv_rows,       \* the rows csv.DictReader yields from the input
    next_row,       \* index of the next row read_contacts validates
    valid_contacts, \* read_contacts: valid_contacts
    invalid_contacts, \* read_contacts: invalid_contacts
    output_file,    \* content of the output path, None when it does not exist
    backups,        \* backup files: timestamp -> content
    reports,        \* rejection reports: timestamp -> content
    error,          \* the exception convert_to_vcard propagated, "none" if none
    history         \* per run: the files before it, when it wrote, the output after

vars == <<country_code, vcard_version, name_suffix, backup, phone, row, contact,
          result, pc, run, clock, csv_state, csv_rows, next_row, valid_contacts,
          invalid_contacts, output_file, backups, reports, error, history>>

unitVars == <<phone, row, contact, result>>
runVars == <<pc, run, clock, csv_state, csv_rows, next_row, valid_contacts,
             invalid_contacts, output_file, backups, reports, error, history>>

-----------------------------------------------------------------------------
(* Python values and string primitives *)

None == <<"None">>

Ok(v) == [ok |-> TRUE, val |-> v, exc |-> "none"]
Raise(e) == [ok |-> FALSE, val |-> None, exc |-> e]

\* None where a Contact is expected (Optional[Contact])
NoContact == [none |-> TRUE]

\* bool(v) of an Optional[str]
Truthy(v) == v # None /\ v # <<>>

Digits == {"0", "1", "2", "3", "4", "5", "6", "7", "8", "9"}
IsDigit(c) == c \in Digits

Whitespace == {" ", "\t", "\n"}

UpperLetters == <<"A","B","C","D","E","F","G","H","I","J","K","L","M",
                  "N","O","P","Q","R","S","T","U","V","W","X","Y","Z">>
LowerLetters == <<"a","b","c","d","e","f","g","h","i","j","k","l","m",
                  "n","o","p","q","r","s","t","u","v","w","x","y","z">>
Letters == {UpperLetters[i] : i \in 1..26} \cup {LowerLetters[i] : i \in 1..26}

Min(a, b) == IF a < b THEN a ELSE b

\* str.lstrip(), str.rstrip(), str.strip()
RECURSIVE LStrip(_)
LStrip(s) ==
    IF s # <<>> /\ Head(s) \in Whitespace THEN LStrip(Tail(s)) ELSE s

RECURSIVE RStrip(_)
RStrip(s) ==
    IF s # <<>> /\ s[Len(s)] \in Whitespace
    THEN RStrip(SubSeq(s, 1, Len(s) - 1)) ELSE s

Strip(s) == RStrip(LStrip(s))

\* str.lower()
LowerChar(c) ==
    IF \E i \in 1..26 : UpperLetters[i] = c
    THEN LowerLetters[CHOOSE i \in 1..26 : UpperLetters[i] = c]
    ELSE c
Lower(s) == [i \in 1..Len(s) |-> LowerChar(s[i])]

\* sep.join(parts)
RECURSIVE Join(_, _)
Join(parts, sep) ==
    IF parts = <<>> THEN <<>>
    ELSE IF Len(parts) = 1 THEN parts[1]
    ELSE parts[1] \o sep \o Join(Tail(parts), sep)

\* str.split(): the maximal runs of non-whitespace characters
RECURSIVE SplitWs(_, _)
SplitWs(s, cur) ==
    IF s = <<>> THEN (IF cur = <<>> THEN <<>> ELSE <<cur>>)
    ELSE IF Head(s) \in Whitespace
         THEN (IF cur = <<>> THEN <<>> ELSE <<cur>>) \o SplitWs(Tail(s), <<>>)
         ELSE SplitWs(Tail(s), Append(cur, Head(s)))
Split(s) == SplitWs(s, <<>>)

\* str.split(sep) for a one-character sep: empty pieces are kept
RECURSIVE SplitOn(_, _, _)
SplitOn(s, sep, cur) ==
    IF s = <<>> THEN <<cur>>
    ELSE IF Head(s) = sep THEN <<cur>> \o SplitOn(Tail(s), sep, <<>>)
         ELSE SplitOn(Tail(s), sep, Append(cur, Head(s)))

-----------------------------------------------------------------------------
(* ContactConverter.clean_phone_number *)

ChunkSize == 4

\* [cleaned[i : i + 4] for i in range(0, len(cleaned), 4)]
RECURSIVE Chunks(_)
Chunks(s) ==
    IF s = <<>> THEN <<>>
    ELSE <<SubSeq(s, 1, Min(ChunkSize, Len(s)))>>
         \o Chunks(SubSeq(s, Min(ChunkSize, Len(s)) + 1, Len(s)))

\* re.sub(r"\D", "", phone)
StripNonDigits_KeepAll(s) == s
StripNonDigits(s) == SelectSeq(s, IsDigit)

MinPhoneDigits == 10

Prefixed_NoPlus(cleaned, cc) ==
    IF Len(cleaned) = MinPhoneDigits THEN cc \o <<" ">> \o cleaned
    ELSE cleaned

Prefixed_NoSpace(cleaned, cc) ==
    IF Len(cleaned) = MinPhoneDigits THEN cc \o cleaned
    ELSE <<"+">> \o cleaned

\* the string that is grouped: the prefix added according to the digit count
Prefixed(cleaned, cc) ==
    IF Len(cleaned) = MinPhoneDigits THEN cc \o <<" ">> \o cleaned
    ELSE IF Len(cleaned) > MinPhoneDigits /\ Head(cleaned) # "+"
         THEN <<"+">> \o cleaned
         ELSE cleaned

Grouped(s) == Strip(Join(Chunks(s), <<" ">>))

clean_phone_number(p, cc) ==
    LET cleaned == StripNonDigits(p) IN
    IF Len(cleaned) < MinPhoneDigits
    THEN Raise("ValueError: Phone number too short")
    ELSE Ok(Grouped(Prefixed(cleaned, cc)))

-----------------------------------------------------------------------------
(* ContactConverter.parse_name: <<firstname, lastname, fullname>> *)

parse_name(name) ==
    LET parts == Split(Strip(name)) IN
    IF Len(parts) = 1 THEN <<parts[1], <<>>, parts[1]>>
    ELSE IF Len(parts) >= 2
         THEN <<parts[1], Join(Tail(parts), <<" ">>), Strip(name)>>
         ELSE <<<<>>, <<>>, <<>>>>

-----------------------------------------------------------------------------
(* ContactConverter.validate_email *)

LocalChars == Letters \cup Digits \cup {".", "_", "%", "+", "-"}
DomainChars == Letters \cup Digits \cup {".", "-"}
MinTldLen == 2

\* re.match(r"^[a-zA-Z0-9._%+-]+@[a-zA-Z0-9.-]+\.[a-zA-Z]{2,}$", e):
\* i is the place of the "@", j the place of the dot before the last label
EmailMatches(e) ==
    \E i \in 1..Len(e), j \in 1..Len(e) :
        /\ e[i] = "@"
        /\ e[j] = "."
        /\ i > 1
        /\ \A k \in 1..(i - 1) : e[k] \in LocalChars
        /\ j > i + 1
        /\ \A k \in (i + 1)..(j - 1) : e[k] \in DomainChars
        /\ Len(e) - j >= MinTldLen
        /\ \A k \in (j + 1)..Len(e) : e[k] \in Letters

validate_email(email) ==
    IF ~Truthy(email) THEN None
    ELSE IF EmailMatches(Strip(email)) THEN Strip(email)
         ELSE None

-----------------------------------------------------------------------------
(* ContactConverter.validate_contact *)
(* A row is the dict csv.DictReader yields, as the sequence of its items   *)
(* [key, val] in column order.  A row shorter than the header has val =    *)
(* None for the missing cells (restval); a row longer than the header has  *)
(* a last item whose key is None (restkey) and whose val is a list.        *)

W_name == <<"n","a","m","e">>
W_phone == <<"p","h","o","n","e">>
W_email == <<"e","m","a","i","l">>
W_organization == <<"o","r","g","a","n","i","z","a","t","i","o","n">>
W_org == <<"o","r","g">>
W_title == <<"t","i","t","l","e">>
W_address == <<"a","d","d","r","e","s","s">>
W_notes == <<"n","o","t","e","s">>
W_note == <<"n","o","t","e">>

RECURSIVE Lookup_FirstNonEmpty(_, _)
Lookup_FirstNonEmpty(r, names) ==
    IF r = <<>> THEN Ok(None)
    ELSE IF Head(r).key = None
         THEN Raise("AttributeError: 'NoneType' object has no attribute 'strip'")
    ELSE IF Lower(Strip(Head(r).key)) \in names
         THEN IF Head(r).val = None
              THEN Raise("AttributeError: 'NoneType' object has no attribute 'strip'")
              ELSE IF Strip(Head(r).val) # <<>> \/ Tail(r) = <<>>
                   THEN Ok(Strip(Head(r).val))
                   ELSE Lookup_FirstNonEmpty(Tail(r), names)
    ELSE Lookup_FirstNonEmpty(Tail(r), names)

\* next((row[k].strip() for k in row if k.strip().lower() in names), None)
RECURSIVE Lookup(_, _)
Lookup(r, names) ==
    IF r = <<>> THEN Ok(None)
    ELSE IF Head(r).key = None
         THEN Raise("AttributeError: 'NoneType' object has no attribute 'strip'")
    ELSE IF Lower(Strip(Head(r).key)) \in names
         THEN IF Head(r).val = None
              THEN Raise("AttributeError: 'NoneType' object has no attribute 'strip'")
              ELSE Ok(Strip(Head(r).val))
    ELSE Lookup(Tail(r), names)

\* if not name or not phone
MissingRequired_BothMissing(name, ph) == ~Truthy(name) /\ ~Truthy(ph)
MissingRequired(name, ph) == ~Truthy(name) \/ ~Truthy(ph)

\* the body of the try block: the Contact, or the exception raised in it
validate_contact_try(r, cc) ==
    LET name == Lookup(r, {W_name}) IN
    IF ~name.ok THEN name ELSE
    LET ph == Lookup(r, {W_phone}) IN
    IF ~ph.ok THEN ph ELSE
    IF MissingRequired(name.val, ph.val)
    THEN Raise("ValueError: Missing required fields: name or phone") ELSE
    LET cleaned_phone == clean_phone_number(ph.val, cc) IN
    IF ~cleaned_phone.ok THEN cleaned_phone ELSE
    LET em == Lookup(r, {W_email}) IN
    IF ~em.ok THEN em ELSE
    LET organization == Lookup(r, {W_organization, W_org}) IN
    IF ~organization.ok THEN organization ELSE
    LET title == Lookup(r, {W_title}) IN
    IF ~title.ok THEN title ELSE
    LET address == Lookup(r, {W_address}) IN
    IF ~address.ok THEN address ELSE
    LET notes == Lookup(r, {W_notes, W_note}) IN
    IF ~notes.ok THEN notes ELSE
    Ok([name |-> name.val,
        phone |-> cleaned_phone.val,
        email |-> validate_email(em.val),
        organization |-> organization.val,
        title |-> title.val,
        address |-> address.val,
        notes |-> notes.val])

\* except Exception: log and return None
validate_contact(r, cc) ==
    LET t == validate_contact_try(r, cc) IN
    IF t.ok THEN t.val ELSE NoContact

-----------------------------------------------------------------------------
(* ContactConverter.setup_vcard_templates and create_vcard_entry           *)
(* A card is a text: the characters of the values, and the literal pieces  *)
(* of the template; the separators ":" and ";" and the line break NL are   *)
(* always characters of their own.                                         *)

NL == "\n"
V2_1 == "2.1"
V3_0 == "3.0"

email_field(c, version) ==
    IF Truthy(c.email)
    THEN <<"EMAIL">>
         \o (IF version = V3_0 THEN <<";", "TYPE=INTERNET">> ELSE <<>>)
         \o <<":">> \o c.email \o <<NL>>
    ELSE <<>>

org_field(c) ==
    IF Truthy(c.organization)
    THEN <<"ORG", ":">> \o c.organization \o <<NL>> ELSE <<>>

title_field(c) ==
    IF Truthy(c.title) THEN <<"TITLE", ":">> \o c.title \o <<NL>> ELSE <<>>

adr_field(c, version) ==
    IF Truthy(c.address)
    THEN <<"ADR">>
         \o (IF version = V3_0 THEN <<";", "TYPE=HOME">> ELSE <<>>)
         \o <<":", ";", ";">> \o c.address \o <<";", ";", ";", ";", NL>>
    ELSE <<>>

note_field(c) ==
    IF Truthy(c.notes) THEN <<"NOTE", ":">> \o c.notes \o <<NL>> ELSE <<>>

optional_fields(c, version) ==
    email_field(c, version) \o org_field(c) \o title_field(c)
    \o adr_field(c, version) \o note_field(c)

template_V2_1(c, suffix) ==
    <<"BEGIN", ":", "VCARD", NL, "VERSION", ":", "2.1", NL>>
    \o <<"N", ":", ";">> \o c.name \o suffix \o <<";", ";", ";", NL>>
    \o <<"FN", ":">> \o c.name \o suffix \o <<NL>>
    \o <<"TEL", ";", "CELL", ";", "PREF", ":">> \o c.phone \o <<NL>>
    \o optional_fields(c, V2_1) \o <<"END", ":", "VCARD">>

template_V3_0(c, suffix) ==
    LET n == parse_name(c.name) IN
    <<"BEGIN", ":", "VCARD", NL, "VERSION", ":", "3.0", NL>>
    \o <<"N", ":">> \o n[2] \o <<";">> \o n[1] \o <<";", ";", ";", NL>>
    \o <<"FN", ":">> \o n[3] \o suffix \o <<NL>>
    \o <<"TEL", ";", "TYPE=CELL", ":">> \o c.phone \o <<NL>>
    \o optional_fields(c, V3_0) \o <<"END", ":", "VCARD">>

create_vcard_entry(c, version, suffix) ==
    IF version = V2_1 THEN template_V2_1(c, suffix)
    ELSE template_V3_0(c, suffix)

-----------------------------------------------------------------------------
(* Inputs of the unit calls *)

MaxDigits == 11

S91 == <<"+", "9", "1">>
CountryCodes == {S91, <<"+", "1">>, <<"+", "1", "2", "4", "2">>}

ExamplePhones ==
    { <<"9","8","7","6","5","4","3","2","1","0">>,
      <<"9","1","9","8","7","6","5","4","3","2","1","0">>,
      <<"1","2","3">> }

DigitStrings ==
    UNION {[1..n -> {"9", "8"}] : n \in 0..MaxDigits} \cup ExamplePhones

\* d with sep put in after every third character
RECURSIVE Punctuated(_, _)
Punctuated(d, sep) ==
    IF Len(d) <= 3 THEN d
    ELSE SubSeq(d, 1, 3) \o <<sep>> \o Punctuated(SubSeq(d, 4, Len(d)), sep)

Decorations == {"plain", "plus", "text"}
Decorate(d, style) ==
    CASE style = "plain" -> d
      [] style = "plus" -> <<"+">> \o d
      [] style = "text" -> <<"(">> \o Punctuated(d, "-") \o <<")", " ", "x">>

PhoneInputs == {Decorate(d, st) : d \in DigitStrings, st \in Decorations}

Cell(k, v) == [key |-> k, val |-> v]
Cells(keys, vals) == {Cell(k, v) : k \in keys, v \in vals}
\* a column that may be missing from the file
Opt(cells) == {<<>>} \cup {<<c>> : c \in cells}

NameKeys == {W_name, <<"N","a","m","e"," ">>, <<" ","N","A","M","E">>}
PhoneKeys == {W_phone, <<"P","h","o","n","e"," ">>}

JohnSmith == <<"J","o","h","n"," ","S","m","i","t","h">>
NameValues ==
    { None, <<>>, <<" ">>, <<"A","l">>, <<" ","J","o"," "," ","L","i"," ">>,
      <<"L","i",";","W","u"," ","X","i">>, JohnSmith }
PhoneValues ==
    { None, <<>>, <<"1","2","3">>, <<"9","8","7","6","5","4","3","2">>,
      <<"9","8","7","6","5","4","3","2","1","0">>,
      <<" ","9","8","7","6","5","-","4","3","2","1","0"," ">>,
      <<"+","9","1","9","8","7","6","5","4","3","2","1","0">> }

GoodEmail == <<"a","@","b",".","c","o">>
EmailValues ==
    { None, <<>>, <<" ">>, GoodEmail, <<" ">> \o GoodEmail \o <<" ">>,
      <<"n","o","t","-","a","n","-","e","m","a","i","l">>,
      <<"a","@","b">>, <<"a","@","b",".","c">>, <<"@","b",".","c","o">>,
      <<"a","@",".","c","o">>, <<"a",".","b","+","c","@","d","-","e",".","f",".","o","r","g">>,
      <<"a","@","b",".","c","0">>, <<"a"," ","@","b",".","c","o">> }

Acme == <<"A","c","m","e">>
RestCell == Cell(None, <<"extra">>)

GoodName == Cell(W_name, JohnSmith)
GoodPhone == Cell(W_phone, <<"9","8","7","6","5","4","3","2","1","0">>)

\* rows that vary the required columns
RequiredRows ==
    { n \o p \o r : n \in Opt(Cells(NameKeys, NameValues)),
                    p \in Opt(Cells(PhoneKeys, PhoneValues)),
                    r \in Opt({RestCell}) }

\* rows with a name and any phone input
PhoneRows == { <<GoodName, Cell(W_phone, p)>> : p \in PhoneInputs }

\* rows with a valid name and phone that vary the email column
EmailRows ==
    { <<GoodName, GoodPhone>> \o e \o o \o r :
        e \in Opt(Cells({W_email, <<"E","m","a","i","l"," ">>}, EmailValues)),
        o \in Opt(Cells({<<"O","r","g">>}, {None, Acme})),
        r \in Opt({RestCell}) }

\* rows with a valid name and phone that vary the optional columns
OptionalRows ==
    { <<n, GoodPhone>> \o e \o o \o t \o a \o x :
        n \in Cells({W_name}, NameValues \ {None, <<>>, <<" ">>}),
        e \in Opt(Cells({W_email}, {GoodEmail})),
        o \in Opt(Cells({W_organization}, {<<>>, Acme})),
        t \in Opt(Cells({W_title}, {<<"D","r">>})),
        a \in Opt(Cells({W_address}, {<<"1"," ","R","d">>, <<"1"," ","R","d",NL,"C","i","t","y">>})),
        x \in Opt(Cells({W_note}, {<<"h","i">>, <<"a",NL,NL,"b">>})) }

\* two columns of different spelling, in either order
Twice(keys, vals) ==
    { pr \in { <<Cell(k1, v1), Cell(k2, v2)>> :
                  k1 \in keys, k2 \in keys, v1 \in vals, v2 \in vals } :
        pr[1].key # pr[2].key }

\* rows in which several columns match the same field, after a column whose
\* header only resembles one
DuplicateRows ==
    { l \o n \o p \o o :
        l \in Opt({Cell(<<"n","a","m","e","s">>, <<"A","l">>)}),
        n \in Twice(NameKeys, {<<>>, <<" ">>, <<"A","l">>, JohnSmith}),
        p \in {<<GoodPhone>>}
              \cup Twice(PhoneKeys,
                         {<<>>, <<"1","2","3">>,
                          <<"9","8","7","6","5","4","3","2","1","0">>,
                          <<"+","9","1","9","8","7","6","5","4","3","2","1","0">>}),
        o \in Opt({Cell(<<"O","R","G"," ">>, <<>>)})
              \cup Twice({W_organization, <<"O","R","G"," ">>}, {<<>>, Acme}) }

RowInputs ==
    RequiredRows \cup PhoneRows \cup EmailRows \cup OptionalRows
    \cup DuplicateRows

\* the contacts validate_contact builds from the rows above
ContactInputs ==
    {validate_contact(r, S91) : r \in (OptionalRows \cup RequiredRows)} \ {NoContact}

Suffixes == {<<>>, <<" ", "(", "W", ")">>}

-----------------------------------------------------------------------------
(* The state outside a run of convert_to_vcard *)

NoFiles == <<>>

RunIdle ==
    /\ run = "none"
    /\ clock = 0
    /\ csv_state = "missing"
    /\ csv_rows = <<>>
    /\ next_row = 1
    /\ valid_contacts = <<>>
    /\ invalid_contacts = <<>>
    /\ output_file = None
    /\ backups = NoFiles
    /\ reports = NoFiles
    /\ error = "none"
    /\ history = <<>>

-----------------------------------------------------------------------------
(* Unit calls: one call of a method of a constructed converter *)

InitCleanPhone ==
    /\ pc = "call_clean_phone_number"
    /\ phone \in PhoneInputs
    /\ country_code \in CountryCodes
    /\ vcard_version = V3_0
    /\ name_suffix = <<>>
    /\ row = <<>>
    /\ contact = None

InitValidateContact ==
    /\ pc = "call_validate_contact"
    /\ row \in RowInputs
    /\ country_code = S91
    /\ vcard_version = V3_0
    /\ name_suffix = <<>>
    /\ phone = <<>>
    /\ contact = None

InitCreateVcardEntry ==
    /\ pc = "call_create_vcard_entry"
    /\ contact \in ContactInputs
    /\ vcard_version \in {V2_1, V3_0}
    /\ name_suffix \in Suffixes
    /\ country_code = S91
    /\ phone = <<>>
    /\ row = <<>>

UnitInit ==
    /\ InitCleanPhone \/ InitValidateContact \/ InitCreateVcardEntry
    /\ backup = TRUE
    /\ result = None
    /\ RunIdle

UnitReturn(value, at) ==
    /\ result' = value
    /\ pc' = at
    /\ UNCHANGED <<country_code, vcard_version, name_suffix, backup,
                   phone, row, contact>>
    /\ UNCHANGED <<run, clock, csv_state, csv_rows, next_row, valid_contacts,
                   invalid_contacts, output_file, backups, reports, error,
                   history>>

CleanPhoneNumber ==
    /\ pc = "call_clean_phone_number"
    /\ UnitReturn(clean_phone_number(phone, country_code),
                  "returned_clean_phone_number")

ValidateContact ==
    /\ pc = "call_validate_contact"
    /\ UnitReturn(validate_contact(row, country_code),
                  "returned_validate_contact")

CreateVcardEntry ==
    /\ pc = "call_create_vcard_entry"
    /\ UnitReturn(create_vcard_entry(contact, vcard_version, name_suffix),
                  "returned_create_vcard_entry")

UnitNext == CleanPhoneNumber \/ ValidateContact \/ CreateVcardEntry

UnitSpec == UnitInit /\ [][UnitNext]_vars

-----------------------------------------------------------------------------
(* ContactConverter.convert_to_vcard(csv_file, output_file), called with   *)
(* an explicit output path, step by step.  The clock is read where a file  *)
(* name is stamped (backup_file, export_error_report), so time passes      *)
(* right before those steps.  The converter has the default country code,  *)
(* dialect and suffix; backup is on or off.                                *)

MaxRows == 2
MaxClock == 2

\* the ghost mark of a run that stamped no file name
NoStamp == 0 - 1

\* the rows of the input file of a run
SampleRows ==
    { <<GoodName, GoodPhone>>,
      <<Cell(W_name, <<>>), Cell(W_phone, <<"1","2","3">>)>>,
      <<Cell(W_name, <<"A","l">>), Cell(W_phone, <<"9","8","7","6","5","4","3","2">>)>>,
      <<GoodName, GoodPhone, Cell(W_email, None)>>,
      <<Cell(<<"N","a","m","e"," ">>, <<" ","J","o"," "," ","L","i"," ">>),
        Cell(W_phone, <<"+","9","1","9","8","7","6","5","4","3","2","1","0">>),
        Cell(W_email, <<"a","@","b">>), Cell(W_org, Acme)>> }

RowSequences == UNION {[1..n -> SampleRows] : n \in 0..MaxRows}

OldOutput == <<"old">>

\* file_path.stem + "_backup_" + strftime("%Y%m%d_%H%M%S") + suffix:
\* one name per second
BackupName_Fixed(t) == 0
BackupName(t) == t

\* "error_report_" + strftime("%Y%m%d_%H%M%S") + ".json"
ReportName(t) == t

\* writing content to the file called name: an existing file is replaced
WriteFile(files, name, content) ==
    [n \in DOMAIN files \cup {name} |->
        IF n = name THEN content ELSE files[n]]

\* enumerate(reader, start=2)
FirstRowNumber == 2
RowNumber_FromOne(k) == k
RowNumber(k) == k + FirstRowNumber - 1

\* json.dump of a row: a None key is written as "null"
JsonRow(r) ==
    [i \in DOMAIN r |->
        [key |-> IF r[i].key = None THEN <<"n","u","l","l">> ELSE r[i].key,
         val |-> r[i].val]]
JsonDump(invalid) ==
    [i \in DOMAIN invalid |->
        [row_number |-> invalid[i].row_number, data |-> JsonRow(invalid[i].data)]]

\* "\n".join(create_vcard_entry(contact) for contact in contacts)
vcards_content(contacts, version, suffix) ==
    Join([i \in DOMAIN contacts |->
            create_vcard_entry(contacts[i], version, suffix)], <<NL>>)

Init ==
    /\ pc = "idle"
    /\ run = "none"
    /\ clock = 0
    /\ csv_state \in {"missing", "unreadable", "readable"}
    /\ csv_rows \in RowSequences
    /\ (csv_state # "readable" => csv_rows = <<>>)
    /\ next_row = 1
    /\ valid_contacts = <<>>
    /\ invalid_contacts = <<>>
    /\ output_file \in {None, OldOutput}
    /\ backups = NoFiles
    /\ reports = NoFiles
    /\ error = "none"
    /\ history = <<>>
    /\ country_code = S91
    /\ vcard_version = V3_0
    /\ name_suffix = <<>>
    /\ backup \in BOOLEAN
    /\ phone = <<>>
    /\ row = <<>>
    /\ contact = None
    /\ result = None

config == <<country_code, vcard_version, name_suffix, backup>>
input == <<csv_state, csv_rows>>

Current == Len(history)
Note(field, value) == [history EXCEPT ![Current][field] = value]

\* the run ends: the exception leaves convert_to_vcard (raise, line 404)
Raised(e, h) ==
    /\ error' = e
    /\ pc' = "raised"
    /\ history' = [h EXCEPT ![Current].output_after = output_file]

\* a call of convert_to_vcard begins; a second call follows the first
Begin ==
    /\ \/ pc = "idle" /\ run' = "first"
       \/ pc \in {"done", "raised"} /\ run = "first" /\ run' = "second"
    /\ pc' = "check_input"
    /\ error' = "none"
    /\ next_row' = 1
    /\ valid_contacts' = <<>>
    /\ invalid_contacts' = <<>>
    /\ history' = Append(history,
                         [output_before |-> output_file,
                          reports_before |-> reports,
                          backup_at |-> NoStamp,
                          report_at |-> NoStamp,
                          output_after |-> None])
    /\ UNCHANGED <<config, input, unitVars, clock, output_file, backups, reports>>

\* if not input_path.is_file(): raise FileNotFoundError
CheckInput ==
    /\ pc = "check_input"
    /\ IF csv_state = "missing"
       THEN Raised("FileNotFoundError", history)
       ELSE pc' = "backup" /\ UNCHANGED <<error, history>>
    /\ UNCHANGED <<config, input, unitVars, run, clock, next_row, valid_contacts,
                   invalid_contacts, output_file, backups, reports>>

\* datetime.now() moves on before a file name is stamped
Tick ==
    /\ pc \in {"backup", "report"}
    /\ clock < MaxClock
    /\ clock' = clock + 1
    /\ UNCHANGED <<config, input, unitVars, pc, run, next_row, valid_contacts,
                   invalid_contacts, output_file, backups, reports, error,
                   history>>

\* self.backup_file(output_file)
BackupFile ==
    /\ pc = "backup"
    /\ IF output_file # None /\ backup
       THEN /\ backups' = WriteFile(backups, BackupName(clock), output_file)
            /\ history' = Note("backup_at", clock)
       ELSE UNCHANGED <<backups, history>>
    /\ pc' = "open_csv"
    /\ UNCHANGED <<config, input, unitVars, run, clock, next_row, valid_contacts,
                   invalid_contacts, output_file, reports, error>>

\* read_contacts: open(csv_file) and csv.DictReader; a failure is re-raised
OpenCsv ==
    /\ pc = "open_csv"
    /\ IF csv_state = "unreadable"
       THEN Raised("OSError", history)
       ELSE pc' = "read_rows" /\ UNCHANGED <<error, history>>
    /\ UNCHANGED <<config, input, unitVars, run, clock, next_row, valid_contacts,
                   invalid_contacts, output_file, backups, reports>>

\* read_contacts: one turn of the loop over the rows
ReadRow ==
    /\ pc = "read_rows"
    /\ next_row <= Len(csv_rows)
    /\ LET c == validate_contact(csv_rows[next_row], country_code) IN
       IF c # NoContact
       THEN /\ valid_contacts' = Append(valid_contacts, c)
            /\ UNCHANGED invalid_contacts
       ELSE /\ invalid_contacts' =
                 Append(invalid_contacts,
                        [row_number |-> RowNumber(next_row),
                         data |-> csv_rows[next_row]])
            /\ UNCHANGED valid_contacts
    /\ next_row' = next_row + 1
    /\ UNCHANGED <<config, input, unitVars, pc, run, clock, output_file, backups,
                   reports, error, history>>

CheckContacts_ReportFirst ==
    /\ pc = "read_rows"
    /\ next_row > Len(csv_rows)
    /\ IF valid_contacts = <<>>
       THEN /\ Raised("ValueError", Note("report_at", clock))
            /\ reports' = WriteFile(reports, ReportName(clock),
                                    JsonDump(invalid_contacts))
       ELSE pc' = "write" /\ UNCHANGED <<error, history, reports>>
    /\ UNCHANGED <<config, input, unitVars, run, clock, next_row, valid_contacts,
                   invalid_contacts, output_file, backups>>

\* read_contacts returns; if not contacts: raise ValueError
CheckContacts ==
    /\ pc = "read_rows"
    /\ next_row > Len(csv_rows)
    /\ IF valid_contacts = <<>>
       THEN Raised("ValueError", history)
       ELSE pc' = "write" /\ UNCHANGED <<error, history>>
    /\ UNCHANGED <<config, input, unitVars, run, clock, next_row, valid_contacts,
                   invalid_contacts, output_file, backups, reports>>

\* with open(output_file, mode="w") as file: file.write(vcards_content)
WriteVcards ==
    /\ pc = "write"
    /\ output_file' = vcards_content(valid_contacts, vcard_version, name_suffix)
    /\ pc' = "report"
    /\ UNCHANGED <<config, input, unitVars, run, clock, next_row, valid_contacts,
                   invalid_contacts, backups, reports, error, history>>

ExportErrorReport_Always ==
    /\ pc = "report"
    /\ reports' = WriteFile(reports, ReportName(clock), JsonDump(invalid_contacts))
    /\ history' = [Note("report_at", clock) EXCEPT ![Current].output_after = output_file]
    /\ pc' = "done"
    /\ UNCHANGED <<config, input, unitVars, run, clock, next_row, valid_contacts,
                   invalid_contacts, output_file, backups, error>>

\* self.export_error_report(invalid_contacts), then the run has succeeded
ExportErrorReport ==
    /\ pc = "report"
    /\ IF invalid_contacts # <<>>
       THEN /\ reports' = WriteFile(reports, ReportName(clock),
                                    JsonDump(invalid_contacts))
            /\ history' = [Note("report_at", clock)
                             EXCEPT ![Current].output_after = output_file]
       ELSE /\ UNCHANGED reports
            /\ history' = Note("output_after", output_file)
    /\ pc' = "done"
    /\ UNCHANGED <<config, input, unitVars, run, clock, next_row, valid_contacts,
                   invalid_contacts, output_file, backups, error>>

Next ==
    \/ Begin
    \/ CheckInput
    \/ Tick
    \/ BackupFile
    \/ OpenCsv
    \/ ReadRow
    \/ CheckContacts
    \/ WriteVcards
    \/ ExportErrorReport

Spec == Init /\ [][Next]_vars

-----------------------------------------------------------------------------
(* Properties of the unit calls, checked under UnitSpec *)

DigitCount(s) == Cardinality({i \in DOMAIN s : s[i] \in Digits})

\* the index of the first column of r whose header, trimmed and in lower
\* case, is one of names; 0 when there is none
FirstColumn(r, names) ==
    LET hits == {i \in DOMAIN r : Lower(Strip(r[i].key)) \in names} IN
    IF hits = {} THEN 0 ELSE CHOOSE i \in hits : \A j \in hits : i <= j

\* the column is a string that is not empty after trimming
HasValue(r, names) ==
    /\ FirstColumn(r, names) # 0
    /\ r[FirstColumn(r, names)].val # None
    /\ Strip(r[FirstColumn(r, names)].val) # <<>>

RawPhone(r) == r[FirstColumn(r, {W_phone})].val

C1_TenDigits == Len(phone) = 10 /\ \A i \in 1..10 : phone[i] \in Digits

\* s with one space put in after every fourth character but the last
C1_Regrouped(s) ==
    [i \in 1..(Len(s) + ((Len(s) - 1) \div 4)) |->
        IF i % 5 = 0 THEN " " ELSE s[i - (i \div 5)]]

\* C1 (as amended): for a string d of exactly 10 digits and a prefix p,
\* clean_phone_number(d) is the whole string p, space, d cut into chunks of
\* 4 characters joined by single spaces, then trimmed: the chunks are cut
\* from the start of the prefix, not from the start of d.
C1_WholeStringRegrouped ==
    (pc = "returned_clean_phone_number" /\ C1_TenDigits)
        => /\ result.ok
           /\ result.val = Strip(C1_Regrouped(country_code \o <<" ">> \o phone))

\* C1 (as stated): the result is p, one space, then d regrouped in fours.
C1_PrefixThenDigitsRegrouped ==
    (pc = "returned_clean_phone_number" /\ C1_TenDigits)
        => /\ result.ok
           /\ result.val = country_code \o <<" ">> \o C1_Regrouped(phone)

C1_Witness ==
    /\ pc = "returned_clean_phone_number"
    /\ country_code = S91
    /\ phone = <<"9","8","7","6","5","4","3","2","1","0">>
    /\ result.val = <<"+","9","1"," "," ","9","8","7","6"," ",
                      "5","4","3","2"," ","1","0">>

\* C2: an input with fewer than 10 digit characters makes
\* clean_phone_number raise the too-short error, and validate_contact
\* returns no Contact for a row whose phone is such a string.
C2_ShortPhoneRejected ==
    /\ (pc = "returned_clean_phone_number" /\ DigitCount(phone) < 10)
          => (~result.ok /\ result.exc = "ValueError: Phone number too short")
    /\ (/\ pc = "returned_validate_contact"
        /\ FirstColumn(row, {W_phone}) # 0
        /\ RawPhone(row) # None
        /\ DigitCount(RawPhone(row)) < 10)
          => result = NoContact

C2_Witness ==
    /\ pc = "returned_clean_phone_number"
    /\ DigitCount(phone) = 9
    /\ Len(phone) > 10
    /\ ~result.ok

\* C4: a Contact returned by validate_contact has a name that is not empty
\* after trimming and a phone that clean_phone_number returned for a raw
\* phone of at least 10 digits; a row whose name or phone column is absent
\* or empty after trimming yields no Contact.
C4_ContactIsValidated ==
    pc = "returned_validate_contact" =>
        /\ result # NoContact =>
              /\ Strip(result.name) # <<>>
              /\ HasValue(row, {W_phone})
              /\ DigitCount(RawPhone(row)) >= 10
              /\ clean_phone_number(Strip(RawPhone(row)), country_code).ok
              /\ result.phone
                   = clean_phone_number(Strip(RawPhone(row)), country_code).val
        /\ (~HasValue(row, {W_name}) \/ ~HasValue(row, {W_phone}))
              => result = NoContact

C4_Witness ==
    /\ pc = "returned_validate_contact"
    /\ result # NoContact
    /\ result.name = JohnSmith
    /\ result.phone = <<"+","9","1"," "," ","9","8","7","6"," ",
                        "5","4","3","2"," ","1","0">>

\* the email validate_contact is to keep: the trimmed address of the first
\* email column when it matches the pattern, None otherwise
C5_ExpectedEmail(r) ==
    LET i == FirstColumn(r, {W_email}) IN
    IF i # 0 /\ r[i].val # None /\ EmailMatches(Strip(r[i].val))
    THEN Strip(r[i].val) ELSE None

\* C5: for a row with a valid name and phone (every other cell of the row
\* being an ordinary string), validate_contact returns a Contact whatever
\* the email column holds: email is the trimmed address when it matches
\* the pattern, None when it does not or is empty.
C5_EmailNeverRejects ==
    (/\ pc = "returned_validate_contact"
     /\ HasValue(row, {W_name})
     /\ HasValue(row, {W_phone})
     /\ DigitCount(RawPhone(row)) >= 10
     /\ \A i \in DOMAIN row :
           i # FirstColumn(row, {W_email})
              => (row[i].key # None /\ row[i].val # None))
        => /\ result # NoContact
           /\ result.email = C5_ExpectedEmail(row)

Lines(text) == SplitOn(text, NL, <<>>)

C6_Tags(c) ==
    (IF Truthy(c.email) THEN <<"EMAIL">> ELSE <<>>)
    \o (IF Truthy(c.organization) THEN <<"ORG">> ELSE <<>>)
    \o (IF Truthy(c.title) THEN <<"TITLE">> ELSE <<>>)
    \o (IF Truthy(c.address) THEN <<"ADR">> ELSE <<>>)
    \o (IF Truthy(c.notes) THEN <<"NOTE">> ELSE <<>>)

\* C6: a card is the five fixed lines (BEGIN, VERSION, N, FN, TEL), then
\* exactly one line for each non-empty attribute among email, organization,
\* title, address, notes, in that order, then END:VCARD, with no blank line.
C6_OneLinePerAttribute ==
    pc = "returned_create_vcard_entry" =>
        LET lines == Lines(result)
            tags == C6_Tags(contact)
        IN  /\ Len(lines) = 5 + Len(tags) + 1
            /\ lines[1] = <<"BEGIN", ":", "VCARD">>
            /\ lines[2] = <<"VERSION", ":", vcard_version>>
            /\ Head(lines[3]) = "N"
            /\ Head(lines[4]) = "FN"
            /\ Head(lines[5]) = "TEL"
            /\ \A k \in 1..Len(tags) : Head(lines[5 + k]) = tags[k]
            /\ lines[Len(lines)] = <<"END", ":", "VCARD">>
            /\ \A k \in 1..Len(lines) : lines[k] # <<>>

\* the value of the first line of the card that starts with the pieces of tag
LineValue(text, tag) ==
    LET lines == Lines(text)
        hits == {i \in DOMAIN lines :
                    /\ Len(lines[i]) >= Len(tag)
                    /\ SubSeq(lines[i], 1, Len(tag)) = tag}
        first == CHOOSE i \in hits : \A j \in hits : i <= j
    IN  SubSeq(lines[first], Len(tag) + 1, Len(lines[first]))

\* C7: in a version 3.0 card, the N line split on ";" gives the lastname
\* and the firstname of parse_name, and the TEL line holds the phone.
C7_RoundTrip ==
    (pc = "returned_create_vcard_entry" /\ vcard_version = V3_0) =>
        LET parts == SplitOn(LineValue(result, <<"N", ":">>), ";", <<>>)
            n == parse_name(contact.name)
        IN  /\ parts[1] = n[2]
            /\ parts[2] = n[1]
            /\ LineValue(result, <<"TEL", ";", "TYPE=CELL", ":">>)
                 = contact.phone

-----------------------------------------------------------------------------
(* Properties of a run of convert_to_vcard, checked under Spec *)

\* the i-th smallest member of a set of numbers
Nth(S, i) == CHOOSE x \in S : Cardinality({y \in S : y < x}) = i - 1

\* the rows read so far
Processed == next_row - 1
Accepted ==
    {k \in 1..Processed : validate_contact(csv_rows[k], country_code) # NoContact}
Rejected == (1..Processed) \ Accepted

ReadingOrRead ==
    pc \in {"read_rows", "write", "report", "done"}
      \/ (pc = "raised" /\ error = "ValueError")
ReadFinished ==
    pc \in {"write", "report", "done"} \/ (pc = "raised" /\ error = "ValueError")

\* C3: read_contacts puts every row in exactly one of valid_contacts and
\* invalid_contacts, both in input order; a rejected k-th row is recorded
\* with row_number k + 1; no row's failure ends the loop: every row of the
\* file is processed, and the only errors of a run are the batch-level ones.
C3_RowsPartitionedInOrder ==
    /\ ReadingOrRead =>
          LET acc == Accepted
              rej == (1..Processed) \ acc
          IN  /\ Len(valid_contacts) = Cardinality(acc)
              /\ Len(invalid_contacts) = Cardinality(rej)
              /\ \A i \in 1..Len(valid_contacts) :
                    valid_contacts[i]
                      = validate_contact(csv_rows[Nth(acc, i)], country_code)
              /\ \A i \in 1..Len(invalid_contacts) :
                    /\ invalid_contacts[i].row_number = Nth(rej, i) + 1
                    /\ invalid_contacts[i].data = csv_rows[Nth(rej, i)]
    /\ ReadFinished => Processed = Len(csv_rows)
    /\ error \in {"none", "FileNotFoundError", "OSError", "ValueError"}
    /\ (pc = "raised" /\ csv_state = "readable")
          => (error = "ValueError" /\ valid_contacts = <<>>)

C3_Witness ==
    /\ pc = "done"
    /\ Len(csv_rows) = 2
    /\ csv_rows[1] = <<GoodName, GoodPhone, Cell(W_email, None)>>
    /\ csv_rows[2] = <<GoodName, GoodPhone>>
    /\ Len(valid_contacts) = 1
    /\ Len(invalid_contacts) = 1
    /\ invalid_contacts[1].row_number = 2

\* C8: a run that fails with a batch-level error (input missing, input
\* unreadable, no valid contact) leaves the output file as it was before
\* the run, writes no rejection report, and propagates the error; these
\* three are the cases in which a run fails.
C8_FatalErrorWritesNothing ==
    /\ pc = "raised" =>
          /\ error # "none"
          /\ output_file = history[Current].output_before
          /\ history[Current].report_at = NoStamp
          /\ reports = history[Current].reports_before
          /\ \/ csv_state = "missing" /\ error = "FileNotFoundError"
             \/ csv_state = "unreadable" /\ error = "OSError"
             \/ /\ csv_state = "readable"
                /\ Accepted = {}
                /\ error = "ValueError"
    /\ pc \in {"write", "report", "done"} =>
          (csv_state = "readable" /\ Accepted # {} /\ error = "none")

C8_Witness ==
    /\ pc = "raised"
    /\ error = "ValueError"
    /\ invalid_contacts # <<>>
    /\ output_file = OldOutput
    /\ backup
    /\ DOMAIN backups # {}

TwoRunsDone == pc = "done" /\ run = "second" /\ backup

\* C9 (as amended): after two successful runs on the same input and output
\* path with backup enabled, the output content is the same after both;
\* the second run backs up the first run's output, the first run makes a
\* backup only when the output file existed before it, and the two backups
\* are two files only when they were made in different seconds.
C9_BackupsOfTwoRuns ==
    TwoRunsDone =>
        LET h1 == history[1]
            h2 == history[2]
        IN  /\ h2.output_after = h1.output_after
            /\ output_file = h1.output_after
            /\ h2.backup_at # NoStamp
            /\ backups[BackupName(h2.backup_at)] = h1.output_after
            /\ (h1.backup_at # NoStamp) <=> (h1.output_before # None)
            /\ Cardinality(DOMAIN backups)
                 = IF h1.backup_at = NoStamp \/ h1.backup_at = h2.backup_at
                   THEN 1 ELSE 2

\* C9 (as stated): two runs leave two distinct backup files and the same
\* output content.
C9_TwoDistinctBackups ==
    TwoRunsDone =>
        /\ Cardinality(DOMAIN backups) = 2
        /\ history[2].output_after = history[1].output_after

C9_Witness ==
    /\ TwoRunsDone
    /\ Cardinality(DOMAIN backups) = 2
    /\ history[1].output_before = OldOutput
    /\ history[2].output_after = history[1].output_after
    /\ output_file # OldOutput

\* the report of this run holds one entry per rejected row, in input order
ReportOfRejectedRows ==
    /\ history[Current].report_at # NoStamp
    /\ LET report == reports[ReportName(history[Current].report_at)]
           rej == Rejected
       IN /\ Len(report) = Cardinality(rej)
          /\ \A i \in 1..Len(report) :
                /\ report[i].row_number = Nth(rej, i) + 1
                /\ report[i].data = JsonRow(csv_rows[Nth(rej, i)])

NoReport ==
    /\ history[Current].report_at = NoStamp
    /\ reports = history[Current].reports_before

-----------------------------------------------------------------------------
(* Further properties of the unit calls, checked under UnitSpec *)

\* the digit characters of s, in their order in s
DigitsOf(s) ==
    LET at == {j \in DOMAIN s : s[j] \in Digits} IN
    [i \in 1..Cardinality(at) |-> s[Nth(at, i)]]

\* C11: for an input with more than 10 digit characters,
\* clean_phone_number returns "+" and then all the digits of the input in
\* their order, the whole string (the "+" included) cut into chunks of 4
\* characters joined by single spaces; the country code is not added, and
\* an input that begins with "+" gives what it gives without that "+".
C11_LongNumberPlusDigitsRegrouped ==
    (pc = "returned_clean_phone_number" /\ DigitCount(phone) > 10) =>
        /\ result.ok
        /\ result.val = C1_Regrouped(<<"+">> \o DigitsOf(phone))
        /\ Head(phone) = "+" =>
              result = clean_phone_number(Tail(phone), country_code)

C11_Witness ==
    /\ pc = "returned_clean_phone_number"
    /\ phone = <<"+","9","1","9","8","7","6","5","4","3","2","1","0">>
    /\ country_code = <<"+", "1">>
    /\ result.val = <<"+","9","1","9"," ","8","7","6","5"," ",
                      "4","3","2","1"," ","0">>

\* the value validate_contact is to use for a field: that of the first
\* matching column, trimmed; None when no column matches
FirstValue(r, names) ==
    IF FirstColumn(r, names) = 0 THEN None
    ELSE Strip(r[FirstColumn(r, names)].val)

\* a column after the first matching one also matches, and holds a value
LaterValue(r, names) ==
    \E i \in DOMAIN r :
        /\ i > FirstColumn(r, names)
        /\ Lower(Strip(r[i].key)) \in names
        /\ r[i].val # None
        /\ Strip(r[i].val) # <<>>

\* C12: headers match whatever their case and surrounding whitespace, and
\* of several columns that match one field the first in column order is
\* used, also when it is empty: a Contact holds the first matching values,
\* and a row whose first name or phone column is empty yields no Contact
\* even when a later matching column holds a value.
C12_FirstMatchingColumnWins ==
    pc = "returned_validate_contact" =>
        /\ result # NoContact =>
              /\ result.name = FirstValue(row, {W_name})
              /\ result.phone
                   = clean_phone_number(FirstValue(row, {W_phone}),
                                        country_code).val
              /\ result.organization = FirstValue(row, {W_organization, W_org})
              /\ result.title = FirstValue(row, {W_title})
              /\ result.address = FirstValue(row, {W_address})
              /\ result.notes = FirstValue(row, {W_notes, W_note})
        /\ \A names \in {{W_name}, {W_phone}} :
              (/\ FirstColumn(row, names) # 0
               /\ ~HasValue(row, names)
               /\ LaterValue(row, names))
                  => result = NoContact

C12_Witness ==
    /\ pc = "returned_validate_contact"
    /\ Len(row) = 3
    /\ row[1] = Cell(<<" ","N","A","M","E">>, <<>>)
    /\ row[2] = Cell(<<"N","a","m","e"," ">>, JohnSmith)
    /\ row[3] = GoodPhone
    /\ result = NoContact

=============================================================================
